---- MODULE Spec2Model ----
(***************************************************************************)
(* A model of ebi.py, the EBI pipeline driver: for each requested          *)
(* experiment id it looks the id up in a metadata table (find_meta),       *)
(* retrieves the files named by the matching rows (get_files) and runs a   *)
(* quality-control pipeline over each retrieved file (run_qc).             *)
(*                                                                         *)
(* Text the program takes apart (id fields, URLs, file names) is a         *)
(* sequence of one-character strings; column names, which are only         *)
(* compared, are strings.  A path is a record [dir, name] standing for     *)
(* os.path.join(data_dir, dir, name).  A shell command is a record         *)
(* [tool, src, dest] standing for the command string the program formats.  *)
(***************************************************************************)
EXTENDS Integers, Sequences, FiniteSets, TLC

VARIABLES
    experiment_id,  \* args.experiment_id: the requested ids, in order
    metadata,       \* the content of the metadata file: header line, then rows
    fh,             \* args.metadata: the lines of the open stream not yet read
    dirs,           \* the sub-directories of data_dir that exist
    disk,           \* the regular files that exist under data_dir
    pc,             \* where the driver is
    i,              \* main's loop counter (1-based ordinal of the current id)
    urls,           \* process: the urls of the rows find_meta returned
    local,          \* process: the paths get_files returned
    error,          \* the exception that ended the run, or NoError
    run,            \* ordinal of the current invocation of the program
    log,            \* history: one record per stage executed in this invocation
    prev,           \* history: <<>>, or whether the previous invocation printed Done.
                    \* and what its stages returned
    suspect         \* history: files on disk left behind by a command that failed

vars == <<experiment_id, metadata, fh, dirs, disk, pc, i, urls, local, error,
          run, log, prev, suspect>>

-----------------------------------------------------------------------------
(* Bounds of the model *)

MaxRows == 2
MaxIds == 2
MaxRuns == 2

-----------------------------------------------------------------------------
(* Text helpers *)

Range(s) == {s[k] : k \in 1..Len(s)}

Prefix(s, n) == SubSeq(s, 1, n)

Drop(s, n) == SubSeq(s, n + 1, Len(s))

EndsWith(s, suffix) ==
    /\ Len(s) >= Len(suffix)
    /\ Drop(s, Len(s) - Len(suffix)) = suffix

NL == "\n"

DigitChar == <<"0", "1", "2", "3", "4", "5", "6", "7", "8", "9">>

RECURSIVE NatStr(_)
NatStr(n) ==
    IF n < 10 THEN <<DigitChar[n + 1]>>
    ELSE NatStr(n \div 10) \o <<DigitChar[(n % 10) + 1]>>

\* str(exp_id) of a Python int
PyStr(n) == IF n < 0 THEN <<"-">> \o NatStr(0 - n) ELSE NatStr(n)

\* os.path.basename: what follows the last "/"
Basename(p) ==
    LET slashes == {k \in 1..Len(p) : p[k] = "/"}
        last == IF slashes = {} THEN 0
                ELSE CHOOSE k \in slashes : \A m \in slashes : m <= k
    IN Drop(p, last)

\* os.path.join(data_dir, dir, name) for a name without "/"
Join(dir, name) == [dir |-> dir, name |-> name]

\* os.path.isfile
IsFile(path, dsk) == path \in dsk

-----------------------------------------------------------------------------
(* The inputs the model draws from *)

ExpIds == {1, 12}

GoodHeader == <<"experiment_id", "url">>

\* a header without the experiment_id column, and one without the url column
BadHeaders == { <<"sample", "url">>, <<"experiment_id", "path">> }

\* The rows a table is made of.  For id 1: two urls of one file name from
\* different sources, and a file name that differs from it only in its fastq
\* suffix.  For id 12: a quoted field that ends in a newline, and a name
\* that is no fastq.  A zero-padded id, which str() never produces.
Lines ==
    { << <<"1">>, <<"h", "/", "a", ".", "f", "q">> >>,
      << <<"1">>, <<"g", "/", "a", ".", "f", "q">> >>,
      << <<"1">>, <<"h", "/", "a", ".", "f", "a", "s", "t", "q", ".", "g", "z">> >>,
      << <<"1", "2">>, <<"h", "/", "b", ".", "f", "q", NL>> >>,
      << <<"1", "2">>, <<"h", "/", "c", ".", "t", "x", "t">> >>,
      << <<"0", "1">>, <<"h", "/", "c", ".", "t", "x", "t">> >> }

SeqsUpTo(S, n) == UNION {[1..k -> S] : k \in 0..n}

Tables ==
    {<<GoodHeader>> \o rows : rows \in SeqsUpTo(Lines, MaxRows)}
    \cup {<<h>> \o rows : h \in BadHeaders, rows \in SeqsUpTo(Lines, 1)}

\* one or more ids, none requested twice
IdLists ==
    {ids \in SeqsUpTo(ExpIds, MaxIds) :
        /\ ids # <<>>
        /\ \A a, b \in 1..Len(ids) : ids[a] = ids[b] => a = b}

-----------------------------------------------------------------------------
(* find_meta *)

NoError == [kind |-> "none", id |-> 0, paths |-> <<>>]

TypeError == [kind |-> "TypeError", id |-> 0, paths |-> <<>>]

KeyError == [kind |-> "KeyError", id |-> 0, paths |-> <<>>]

MissingField == [kind |-> "missing_field", id |-> 0, paths |-> <<>>]

NotFound(exp_id) == [kind |-> "not_found", id |-> exp_id, paths |-> <<>>]

RunnerError == [kind |-> "runner", id |-> 0, paths |-> <<>>]

FailedToDownload(missing) == [kind |-> "missing", id |-> 0, paths |-> missing]

\* csv.DictReader: one row as a mapping from the field names to the values
\* of the line (of a repeated field name the last column wins)
DictRow(fieldnames, line) ==
    [f \in Range(fieldnames) |->
        line[CHOOSE k \in 1..Len(fieldnames) :
                /\ fieldnames[k] = f
                /\ \A m \in 1..Len(fieldnames) : fieldnames[m] = f => m <= k]]

DictRows(fieldnames, lines) ==
    [k \in 1..Len(lines) |-> DictRow(fieldnames, lines[k])]

\* the rows find_meta keeps: field experiment_id string-equal to str(exp_id)
MatchingRows(exp_id, rows) ==
    SelectSeq(rows, LAMBDA r : r["experiment_id"] = PyStr(exp_id))

\* find_meta(exp_id, fh) on a stream of which `stream` is still unread:
\* the exception raised (or NoError), the rows returned, the stream left
find_meta(exp_id, stream) ==
    IF stream = <<>>
    THEN \* reader.fieldnames is None at end of file
         [err |-> TypeError, meta |-> <<>>, rest |-> <<>>]
    ELSE LET fieldnames == Head(stream) IN
         IF "experiment_id" \notin Range(fieldnames)
         THEN [err |-> MissingField, meta |-> <<>>, rest |-> Tail(stream)]
         ELSE LET meta == MatchingRows(exp_id, DictRows(fieldnames, Tail(stream))) IN
              [err |-> IF meta = <<>> THEN NotFound(exp_id) ELSE NoError,
               meta |-> meta,
               rest |-> <<>>]

-----------------------------------------------------------------------------
(* The external batch runner, parallelprocs.run(todo, halt=1, num_procs=8) *)

\* What may become of one command of a batch.
\*   "ok":      it succeeds and its destination file exists;
\*   "failed":  it fails, or is never started because the runner halted on
\*              the failure of another command, and leaves no file;
\*   "partial": it fails and leaves a file behind.  A QC command is
\*              "... | fastx_collapser > qc_file": the shell creates qc_file
\*              before the pipeline runs, so a pipeline that fails leaves it.
\*              A transfer that fails is taken to leave nothing.
Fates(cmd) ==
    IF cmd.tool = "iget" THEN {"ok", "failed"} ELSE {"ok", "failed", "partial"}

SomeFailed(fate) == \E k \in DOMAIN fate : fate[k] \in {"failed", "partial"}

BatchFates(todo) ==
    {fate \in [1..Len(todo) -> {"ok", "failed", "partial"}] :
        \A k \in 1..Len(todo) : fate[k] \in Fates(todo[k])}

\* the files a batch leaves on disk
Written(todo, fate) ==
    {todo[k].dest : k \in {m \in 1..Len(todo) : fate[m] \in {"ok", "partial"}}}

\* the files a failed command of the batch left on disk
LeftByFailure(todo, fate) ==
    {todo[k].dest : k \in {m \in 1..Len(todo) : fate[m] = "partial"}}

\* The runner's own code is not part of the program.  After a batch in which
\* a command failed it may raise or return; after a batch without a failure
\* it returns.  Without commands it is not called (if todo:).
RunnerRaises(todo, fate) ==
    IF todo = <<>> THEN {FALSE}
    ELSE IF SomeFailed(fate) THEN {TRUE, FALSE} ELSE {FALSE}

\* (mutant) the check for missing files is left out
Missing_none(expected, dsk) == <<>>

\* (mutant) only the first missing path is reported
Missing_first(expected, dsk) ==
    LET missing == SelectSeq(expected, LAMBDA f : ~IsFile(f, dsk))
    IN IF missing = <<>> THEN <<>> ELSE <<missing[1]>>

\* the paths of `expected` that are no file on disk, in order
Missing(expected, dsk) == SelectSeq(expected, LAMBDA f : ~IsFile(f, dsk))

-----------------------------------------------------------------------------
(* get_files *)

IgetCmd(file, path) == [tool |-> "iget", src |-> file, dest |-> path]

\* (mutant) a destination met before is not recognised
AlreadyExpected_never(path, expected) == FALSE

\* if path in expected: continue
AlreadyExpected(path, expected) == path \in Range(expected)

\* (mutant) a file that is already there is downloaded again
AlreadyDownloaded_never(path, dsk) == FALSE

\* if os.path.isfile(path): continue
AlreadyDownloaded(path, dsk) == IsFile(path, dsk)

\* the loop of get_files: the expected paths and the commands to run
RECURSIVE ScanFiles(_, _, _, _)
ScanFiles(files, dsk, expected, todo) ==
    IF files = <<>> THEN [expected |-> expected, todo |-> todo]
    ELSE LET file == Head(files)
             path == Join("raw", Basename(file))
         IN IF AlreadyExpected(path, expected)
            THEN ScanFiles(Tail(files), dsk, expected, todo)
            ELSE IF AlreadyDownloaded(path, dsk)
            THEN ScanFiles(Tail(files), dsk, Append(expected, path), todo)
            ELSE ScanFiles(Tail(files), dsk, Append(expected, path),
                           Append(todo, IgetCmd(file, path)))

-----------------------------------------------------------------------------
(* run_qc *)

FastqSuffixes ==
    { <<".", "f", "q">>,
      <<".", "f", "a", "s", "t", "q">>,
      <<".", "f", "q", ".", "g", "z">>,
      <<".", "f", "a", "s", "t", "q", ".", "g", "z">> }

\* re.match('(.+)\.f(?:ast)?q(?:\.gz)?$', basename): the lengths group 1 can
\* have.  "." matches any character but a newline, and "$" matches at the
\* end of the string and also just before a newline that ends the string.
MatchLengths(basename) ==
    {n \in 1..Len(basename) :
        /\ NL \notin Range(Prefix(basename, n))
        /\ \E suffix \in FastqSuffixes :
              \/ Drop(basename, n) = suffix
              \/ Drop(basename, n) = suffix \o <<NL>>}

\* the stem: group 1 of the match (".+" is greedy: the longest), or the
\* basename itself when the pattern does not match
Stem(basename) ==
    LET lens == MatchLengths(basename) IN
    IF lens = {} THEN basename
    ELSE Prefix(basename, CHOOSE n \in lens : \A m \in lens : m <= n)

\* gzipped = basename.endswith('.gz')
Gzipped(basename) == EndsWith(basename, <<".", "g", "z">>)

QcFile(file) == Join("qc", Stem(Basename(file.name)) \o <<".", "f", "a">>)

QcCmd(file) ==
    [tool |-> IF Gzipped(Basename(file.name)) THEN "gunzip" ELSE "cat",
     src |-> file,
     dest |-> QcFile(file)]

\* if os.path.isfile(qc_file): continue
AlreadyFiltered(qc_file, dsk) == IsFile(qc_file, dsk)

\* the loop of run_qc: the expected outputs and the commands to run
RECURSIVE ScanQc(_, _, _, _)
ScanQc(files, dsk, expected, todo) ==
    IF files = <<>> THEN [expected |-> expected, todo |-> todo]
    ELSE LET file == Head(files)
             qc_file == QcFile(file)
         IN IF AlreadyFiltered(qc_file, dsk)
            THEN ScanQc(Tail(files), dsk, Append(expected, qc_file), todo)
            ELSE ScanQc(Tail(files), dsk, Append(expected, qc_file),
                        Append(todo, QcCmd(file)))

-----------------------------------------------------------------------------
(* The driver: main and process *)

\* One stage of process as it was executed: its argument, the disk when it
\* began, the paths it expected, the batch it handed to the runner (<<>>: the
\* runner was not called), what became of each command, the exception
\* raised, and what it returned (<<>> when it raised).
Event(stage, idx, args, before, expected, cmds, fate, err, ret) ==
    [stage |-> stage, idx |-> idx, args |-> args, before |-> before,
     expected |-> expected, cmds |-> cmds, fate |-> fate, err |-> err,
     ret |-> IF err = NoError THEN ret ELSE <<>>]

\* (mutant) the loop of main catches the exception of one id and goes on
\* with the next id
Propagate_isolated(err, ok, idx) ==
    IF err = NoError
    THEN [pc |-> ok.pc, i |-> ok.i, error |-> NoError]
    ELSE [pc |-> "main", i |-> idx + 1, error |-> NoError]

\* No exception is caught anywhere: one raised in a stage leaves process and
\* the loop of main and ends the run; otherwise control goes on to `ok`.
Propagate(err, ok, idx) ==
    IF err = NoError
    THEN [pc |-> ok.pc, i |-> ok.i, error |-> NoError]
    ELSE [pc |-> "failed", i |-> idx, error |-> err]

Init ==
    /\ experiment_id \in IdLists
    /\ metadata \in Tables
    /\ fh = metadata
    /\ dirs = {}
    /\ disk = {}
    /\ pc = "main"
    /\ i = 1
    /\ urls = <<>>
    /\ local = <<>>
    /\ error = NoError
    /\ run = 1
    /\ log = <<>>
    /\ prev = <<>>
    /\ suspect = {}

\* for i, exp_id in enumerate(args.experiment_id, start=1): print; process(...)
MainNext ==
    /\ pc = "main"
    /\ i <= Len(experiment_id)
    /\ pc' = "find_meta"
    /\ UNCHANGED <<experiment_id, metadata, fh, dirs, disk, i, urls, local,
                   error, run, log, prev, suspect>>

\* print('Done.')
MainDone ==
    /\ pc = "main"
    /\ i > Len(experiment_id)
    /\ pc' = "done"
    /\ UNCHANGED <<experiment_id, metadata, fh, dirs, disk, i, urls, local,
                   error, run, log, prev, suspect>>

\* meta = find_meta(exp_id, fh); urls = list(map(lambda m: m['url'], meta))
FindMeta ==
    /\ pc = "find_meta"
    /\ LET r == find_meta(experiment_id[i], fh)
           err == IF r.err # NoError THEN r.err
                  ELSE IF "url" \notin DOMAIN r.meta[1] THEN KeyError
                  ELSE NoError
           to == Propagate(err, [pc |-> "get_files", i |-> i], i)
       IN /\ fh' = r.rest
          /\ urls' = IF err = NoError
                     THEN [k \in 1..Len(r.meta) |-> r.meta[k]["url"]]
                     ELSE <<>>
          /\ pc' = to.pc
          /\ i' = to.i
          /\ error' = to.error
          /\ log' = Append(log, Event("find_meta", i, <<experiment_id[i]>>, disk,
                                      <<>>, <<>>, <<>>, err, r.meta))
    /\ UNCHANGED <<experiment_id, metadata, dirs, disk, local, run, prev, suspect>>

\* local = get_files(urls, data_dir)
GetFiles ==
    /\ pc = "get_files"
    /\ LET scan == ScanFiles(urls, disk, <<>>, <<>>)
           expected == scan.expected
           todo == scan.todo
       IN \E fate \in BatchFates(todo) : \E raised \in RunnerRaises(todo, fate) :
          LET after == disk \cup Written(todo, fate)
              missing == Missing(expected, after)
              err == IF raised THEN RunnerError
                     ELSE IF missing # <<>> THEN FailedToDownload(missing)
                     ELSE NoError
              to == Propagate(err, [pc |-> "run_qc", i |-> i], i)
          IN /\ dirs' = dirs \cup {"raw"}
             /\ disk' = after
             /\ suspect' = suspect \cup LeftByFailure(todo, fate)
             /\ local' = IF err = NoError THEN expected ELSE <<>>
             /\ pc' = to.pc
             /\ i' = to.i
             /\ error' = to.error
             /\ log' = Append(log, Event("get_files", i, urls, disk, expected,
                                         todo, fate, err, expected))
    /\ UNCHANGED <<experiment_id, metadata, fh, urls, run, prev>>

\* run_qc(local, data_dir), and the return to the loop of main
RunQc ==
    /\ pc = "run_qc"
    /\ LET scan == ScanQc(local, disk, <<>>, <<>>)
           expected == scan.expected
           todo == scan.todo
       IN \E fate \in BatchFates(todo) : \E raised \in RunnerRaises(todo, fate) :
          LET after == disk \cup Written(todo, fate)
              missing == Missing(expected, after)
              err == IF raised THEN RunnerError
                     ELSE IF missing # <<>> THEN FailedToDownload(missing)
                     ELSE NoError
              to == Propagate(err, [pc |-> "main", i |-> i + 1], i)
          IN /\ dirs' = dirs \cup {"qc"}
             /\ disk' = after
             /\ suspect' = suspect \cup LeftByFailure(todo, fate)
             /\ pc' = to.pc
             /\ i' = to.i
             /\ error' = to.error
             /\ log' = Append(log, Event("run_qc", i, local, disk, expected,
                                         todo, fate, err, expected))
    /\ UNCHANGED <<experiment_id, metadata, fh, urls, local, run, prev>>

\* what the stages of an invocation returned
Returned(events) == [k \in 1..Len(events) |-> events[k].ret]

\* The program is invoked again with the same arguments on the data
\* directory the previous invocation left.
Rerun ==
    /\ pc \in {"done", "failed"}
    /\ run < MaxRuns
    /\ run' = run + 1
    /\ prev' = <<[done |-> pc = "done",
                  returned |-> IF pc = "done" THEN Returned(log) ELSE <<>>]>>
    /\ fh' = metadata
    /\ pc' = "main"
    /\ i' = 1
    /\ urls' = <<>>
    /\ local' = <<>>
    /\ error' = NoError
    /\ log' = <<>>
    /\ UNCHANGED <<experiment_id, metadata, dirs, disk, suspect>>

Next == MainNext \/ MainDone \/ FindMeta \/ GetFiles \/ RunQc \/ Rerun

Spec == Init /\ [][Next]_vars

-----------------------------------------------------------------------------
(* Properties *)

Stages == <<"find_meta", "get_files", "run_qc">>

StageEvents(stage) == {k \in 1..Len(log) : log[k].stage = stage}

\* the table as it is written in the file
HeaderOk == Head(metadata) = GoodHeader

TableLines == Tail(metadata)

\* the lines of the table whose first column reads as the decimal form of id
LinesOf(id) == SelectSeq(TableLines, LAMBDA line : line[1] = PyStr(id))

AsRow(line) == [experiment_id |-> line[1], url |-> line[2]]

\* C1: every lookup the driver runs for a requested id that is present in the
\* metadata table, for the first id of a run and for every later one alike,
\* returns exactly the rows whose experiment_id field equals the decimal
\* string of the id, in the order of the file.
C1_LookupReturnsMatchingRows ==
    \A k \in StageEvents("find_meta") :
        LET id == log[k].args[1]
            lines == LinesOf(id)
        IN (HeaderOk /\ lines # <<>>) =>
              /\ log[k].err = NoError
              /\ log[k].ret = [n \in 1..Len(lines) |-> AsRow(lines[n])]

\* C7: a lookup for a requested id that matches no row of the table fails
\* with the not-found error that names the id, and no download command and
\* no QC command is submitted for that id.
C7_AbsentIdNotFound ==
    \A k \in StageEvents("find_meta") :
        LET id == log[k].args[1] IN
        (HeaderOk /\ LinesOf(id) = <<>>) =>
              /\ log[k].err = [kind |-> "not_found", id |-> id, paths |-> <<>>]
              /\ \A m \in 1..Len(log) : log[m].idx = log[k].idx => log[m].cmds = <<>>

\* what stage t of the n-th id is to be given: the id; the urls of the rows
\* the lookup returned; the paths the retrieval returned
StageInput(n, t) ==
    LET given == log[3 * (n - 1) + t - 1].ret IN
    IF t = 1 THEN <<experiment_id[n]>>
    ELSE IF t = 2 THEN [m \in 1..Len(given) |-> given[m].url]
    ELSE given

\* C2: "Done." is printed only after the lookup, the retrieval and the QC of
\* every requested id completed without error, and a stage that fails is the
\* last thing the run does: the run has ended in failure and nothing is
\* looked up, downloaded or filtered after it.
C2_DoneOnlyAfterAllStages ==
    /\ pc = "done" =>
          /\ Len(log) = 3 * Len(experiment_id)
          /\ \A n \in 1..Len(experiment_id) : \A t \in 1..3 :
                LET e == log[3 * (n - 1) + t] IN
                /\ e.stage = Stages[t]
                /\ e.idx = n
                /\ e.args = StageInput(n, t)
                /\ e.err = NoError
    /\ \A k \in 1..Len(log) :
          log[k].err # NoError => (k = Len(log) /\ pc = "failed" /\ error = log[k].err)
    /\ pc = "failed" => (log # <<>> /\ log[Len(log)].err # NoError)

\* a retrieval failed while a later id was still to be processed
C2_Witness ==
    /\ pc = "failed"
    /\ log[Len(log)].stage = "get_files"
    /\ i < Len(experiment_id)

\* the last stage executed, the one the current disk is the result of
LastEvent == log[Len(log)]

\* the paths of a list that are not on the disk now, in the order of the list
NotOnDisk(paths) == SelectSeq(paths, LAMBDA f : f \notin disk)

FirstAt(files, name) ==
    CHOOSE k \in 1..Len(files) :
        /\ Basename(files[k]) = name
        /\ \A m \in 1..(k - 1) : Basename(files[m]) # name

\* C4: the expected paths get_files builds hold no path twice, each is
\* <data_dir>/raw/<basename of a url> and every url has its path among them,
\* they are in the order their basename was first met, and only the first url
\* of a basename can queue a download command.
C4_ExpectedPathsFirstSeen ==
    \A k \in StageEvents("get_files") :
        LET files == log[k].args
            expected == log[k].expected
            todo == log[k].cmds
        IN /\ \A a, b \in 1..Len(expected) : expected[a] = expected[b] => a = b
           /\ \A a \in 1..Len(expected) :
                 /\ expected[a].dir = "raw"
                 /\ \E u \in Range(files) : expected[a].name = Basename(u)
           /\ \A u \in Range(files) :
                 \E a \in 1..Len(expected) : expected[a].name = Basename(u)
           /\ \A a, b \in 1..Len(expected) :
                 a < b => FirstAt(files, expected[a].name) < FirstAt(files, expected[b].name)
           /\ \A c \in 1..Len(todo) :
                 /\ todo[c].tool = "iget"
                 /\ todo[c].dest \in Range(expected)
                 /\ todo[c].src = files[FirstAt(files, todo[c].dest.name)]
           /\ \A c, d \in 1..Len(todo) : todo[c].dest = todo[d].dest => c = d

\* two urls of one file name from different sources: one path, one command
C4_Witness ==
    \E k \in StageEvents("get_files") :
        /\ Len(log[k].args) = 2
        /\ log[k].args[1] # log[k].args[2]
        /\ Len(log[k].expected) = 1
        /\ Len(log[k].cmds) = 1

\* C5: a command is queued only for a destination that is not on disk (a
\* download for a missing raw file, a QC command for a missing output), and
\* the invocation that follows one that printed Done., with the same
\* arguments, submits no command at all and its stages return what the
\* stages of the previous one returned.
C5_RerunIdempotent ==
    /\ \A k \in 1..Len(log) : \A c \in 1..Len(log[k].cmds) :
          log[k].cmds[c].dest \notin log[k].before
    /\ (prev # <<>> /\ prev[1].done) =>
          /\ \A k \in 1..Len(log) :
                /\ log[k].cmds = <<>>
                /\ log[k].err = NoError
                /\ log[k].ret = prev[1].returned[k]
          /\ pc = "done" => Returned(log) = prev[1].returned

\* a second invocation printed Done. after a first one that downloaded and
\* filtered and printed Done.
C5_Witness ==
    /\ prev # <<>>
    /\ prev[1].done
    /\ pc = "done"
    /\ \E f \in disk : f.dir = "qc"
    /\ Len(log) = 3

\* the stem as the claim has it: the base name without its trailing .fq,
\* .fastq, .fq.gz or .fastq.gz when a character precedes that suffix
ClaimedStem(basename) ==
    LET fits == {x \in FastqSuffixes :
                    EndsWith(basename, x) /\ Len(basename) > Len(x)}
    IN IF fits = {} THEN basename
       ELSE LET x == CHOOSE y \in fits : TRUE
            IN Prefix(basename, Len(basename) - Len(x))

\* C6: for every input of run_qc the expected output is
\* <data_dir>/qc/<stem>.fa, where the stem is the base name without a
\* trailing .fq, .fastq, .fq.gz or .fastq.gz that a character precedes, and
\* the base name itself otherwise; its command decompresses the source
\* exactly when the base name ends in .gz.
C6_StemAndOutput ==
    \A k \in StageEvents("run_qc") :
        /\ Len(log[k].expected) = Len(log[k].args)
        /\ \A a \in 1..Len(log[k].args) :
              log[k].expected[a] =
                 [dir |-> "qc",
                  name |-> ClaimedStem(log[k].args[a].name) \o <<".", "f", "a">>]
        /\ \A c \in 1..Len(log[k].cmds) :
              log[k].cmds[c].tool = "gunzip"
                 <=> EndsWith(log[k].cmds[c].src.name, <<".", "g", "z">>)

\* C8: in every batch handed to the runner no two commands write the same
\* destination file.
C8_DistinctDestinations ==
    \A k \in 1..Len(log) : \A c, d \in 1..Len(log[k].cmds) :
        log[k].cmds[c].dest = log[k].cmds[d].dest => c = d

\* the commands of a stage that failed
FailedCmds(e) == {c \in 1..Len(e.cmds) : e.fate[c] \in {"failed", "partial"}}

\* C9: a failed command is fatal: the stage whose batch held a command that
\* failed raises, no run in which a command failed prints Done., and a file
\* left by a command that failed is neither counted as present by a stage
\* that returns normally nor taken as already there.
C9_FailedCommandIsFatal ==
    /\ \A k \in 1..Len(log) : FailedCmds(log[k]) # {} => log[k].err # NoError
    /\ pc = "done" => \A k \in 1..Len(log) : FailedCmds(log[k]) = {}
    /\ \A k \in 1..Len(log) : \A f \in Range(log[k].expected) :
          f \in suspect => (log[k].err # NoError /\ f \notin log[k].before)

\* the only row of the first requested id names a .fastq.gz file, and the
\* data directory was empty when the invocation began
OneGzRow ==
    /\ HeaderOk
    /\ run = 1
    /\ Len(LinesOf(experiment_id[1])) = 1
    /\ EndsWith(LinesOf(experiment_id[1])[1][2],
                <<".", "f", "a", "s", "t", "q", ".", "g", "z">>)

\* C10: the stages run in the order lookup, retrieval, QC for one id after
\* the other, each only after the one before it returned normally; a QC
\* command is submitted only for a raw file that is on disk at that moment,
\* one of the paths the retrieval returned, all of which are on disk; and one
\* matching row with a .fastq.gz url and an empty data directory yields
\* exactly one download command and then exactly one decompress-and-filter
\* command.
C10_StagesInOrder ==
    /\ \A k \in 1..Len(log) :
          /\ log[k].stage = Stages[((k - 1) % 3) + 1]
          /\ log[k].idx = ((k - 1) \div 3) + 1
          /\ k < Len(log) => log[k].err = NoError
          /\ log[k].stage = "find_meta" => log[k].cmds = <<>>
    /\ \A k \in StageEvents("run_qc") :
          /\ \A f \in Range(log[k - 1].ret) : f \in log[k].before
          /\ \A c \in 1..Len(log[k].cmds) :
                /\ log[k].cmds[c].src \in Range(log[k - 1].ret)
                /\ log[k].cmds[c].src \in log[k].before
    /\ OneGzRow =>
          LET url == LinesOf(experiment_id[1])[1][2]
              raw == [dir |-> "raw", name |-> Basename(url)]
              out == [dir |-> "qc",
                      name |-> Prefix(raw.name, Len(raw.name) - 9) \o <<".", "f", "a">>]
          IN /\ Len(log) >= 2 =>
                   log[2].cmds = <<[tool |-> "iget", src |-> url, dest |-> raw]>>
             /\ Len(log) >= 3 =>
                   log[3].cmds = <<[tool |-> "gunzip", src |-> raw, dest |-> out]>>

\* the one-row scenario ran to Done.
C10_Witness ==
    /\ OneGzRow
    /\ pc = "done"
    /\ Len(log) = 3

====
